---- MODULE Spec2Model ----
(***************************************************************************)
(* A model of render.py: the table-file parser (load_table), the image     *)
(* compositor (render_image), the JSON exporter (render_json) and the      *)
(* command-line driver.  Text is modelled as sequences of one-character    *)
(* strings, so that the parsing code (startswith, count, split, strip,     *)
(* int) is modelled by what it does.  Lines are held without their         *)
(* trailing newline; readline at end of file gives the empty line.         *)
(***************************************************************************)
EXTENDS Integers, Sequences, FiniteSets, TLC

(* ------------------------------ bounds --------------------------------- *)
MaxIdLen == 4
MaxComments == 1
MaxRows == 2
MaxCells == 2
ContentCells == 2
MaxDirs == 2

(* ----------------------- program constants ----------------------------- *)
WIDTH == 32
HEIGHT == 32
THUMB == 16
LINEWIDTH == 4

\* Python's None, as an identifier, as a layer and as an image
None == <<"None">>
NoLayer == 0 - 1
NoImage == [sheet |-> "None", box |-> <<>>]

(* --------------------------- str methods ------------------------------- *)
Digits == <<"0", "1", "2", "3", "4", "5", "6", "7", "8", "9">>

IsDigit(c) == \E i \in 1..10 : Digits[i] = c

DigitVal(c) == (CHOOSE i \in 1..10 : Digits[i] = c) - 1

startswith(s, c) == Len(s) > 0 /\ s[1] = c

endswith(s, c) == Len(s) > 0 /\ s[Len(s)] = c

count(s, c) == Cardinality({i \in 1..Len(s) : s[i] = c})

IsSpace(c) == c = " "

RECURSIVE lstrip(_)
lstrip(s) == IF Len(s) > 0 /\ IsSpace(s[1]) THEN lstrip(Tail(s)) ELSE s

RECURSIVE rstrip(_)
rstrip(s) ==
    IF Len(s) > 0 /\ IsSpace(s[Len(s)]) THEN rstrip(SubSeq(s, 1, Len(s) - 1)) ELSE s

strip(s) == rstrip(lstrip(s))

replace(s, c) == SelectSeq(s, LAMBDA ch : ch # c)

\* s.split(sep): the fields between separators, empty fields kept
RECURSIVE splitAcc(_, _, _)
splitAcc(s, sep, cur) ==
    IF Len(s) = 0 THEN <<cur>>
    ELSE IF s[1] = sep THEN <<cur>> \o splitAcc(Tail(s), sep, <<>>)
    ELSE splitAcc(Tail(s), sep, Append(cur, s[1]))

split(s, sep) == splitAcc(s, sep, <<>>)

\* s.split(): the maximal runs of non-whitespace
words(s) == SelectSeq(split(s, " "), LAMBDA w : Len(w) > 0)

\* lst[1:-1]
inner(lst) == IF Len(lst) <= 2 THEN <<>> ELSE SubSeq(lst, 2, Len(lst) - 1)

\* int(s) succeeds: optional surrounding blanks, optional sign, digits
Unsigned(t) == IF Len(t) > 0 /\ (t[1] = "+" \/ t[1] = "-") THEN Tail(t) ELSE t

IsInt(s) ==
    LET u == Unsigned(strip(s))
    IN  Len(u) > 0 /\ \A i \in 1..Len(u) : IsDigit(u[i])

RECURSIVE NatVal(_)
NatVal(u) ==
    IF Len(u) = 0 THEN 0
    ELSE 10 * NatVal(SubSeq(u, 1, Len(u) - 1)) + DigitVal(u[Len(u)])

int(s) ==
    LET t == strip(s)
    IN  IF startswith(t, "-") THEN 0 - NatVal(Unsigned(t)) ELSE NatVal(Unsigned(t))

(* ------------------------- Space and helpers --------------------------- *)
NIL == <<"n", "i", "l">>
GAP == <<"g", "a", "p">>
ITEM == <<"i", "t", "e", "m">>

space_abbr_nostrip(space) ==
    IF space = NIL THEN None
    ELSE IF space = <<>> THEN GAP
    ELSE IF endswith(space, "?") THEN SubSeq(space, 1, Len(space) - 1)
    ELSE space

space_abbr(space) ==
    LET s == IF endswith(space, "?") THEN SubSeq(space, 1, Len(space) - 1) ELSE space
    IN  IF s = NIL THEN None
        ELSE IF s = <<>> THEN GAP
        ELSE s

space_layer(space) ==
    IF space = None THEN NoLayer
    ELSE IF space = GAP THEN 0
    ELSE 1

\* Space.__init__
Space(space, refs) ==
    [space |-> space_abbr(space), refs |-> refs, show |-> ~endswith(space, "?")]

\* Space.layer
layer(elem) == space_layer(elem.space)

(* --------------------------- the dictionary ---------------------------- *)
\* the sprite dictionary loaded at import time: a gap tile, one terrain
\* tile, a terrain entry without coords, an item, a token, and a token
\* entry without thumbnail
X == <<"X">>
W == <<"W">>
SW == <<"s", "w">>
TK == <<"t", "k">>
NT == <<"n", "t">>

dictionary ==
    [spaces |-> (GAP :> [coords |-> <<"0", ",", "0", ",", "3", "2", ",", "3", "2">>])
                @@ (X :> [coords |-> <<"3", "2", ",", "0", ",", "6", "4", ",", "3", "2">>])
                @@ (W :> [note |-> "no coords"]),
     items  |-> (SW :> [thumbnail |-> <<0, 16>>, span |-> <<2, 1>>]),
     tokens |-> (TK :> [thumbnail |-> <<16, 0>>]) @@ (NT :> [note |-> "no thumbnail"])]

\* sheet.crop(box)
crop(sheet, box) == [sheet |-> sheet, box |-> box]

\* Space.image: exc is the exception raised ("none" when it returns)
SpaceImage(elem) ==
    IF elem.space = None \/ ~elem.show THEN [exc |-> "none", img |-> NoImage]
    ELSE IF elem.space \notin DOMAIN dictionary.spaces THEN [exc |-> "KeyError", img |-> NoImage]
    ELSE IF "coords" \notin DOMAIN dictionary.spaces[elem.space] THEN [exc |-> "KeyError", img |-> NoImage]
    ELSE LET c == split(dictionary.spaces[elem.space].coords, ",")
         IN  [exc |-> "none",
              img |-> crop("spaces", <<int(c[1]), int(c[2]), int(c[3]), int(c[4])>>)]

\* Ref._image
Ref_image(d, name) ==
    IF name \notin DOMAIN d THEN NoImage
    ELSE IF "thumbnail" \notin DOMAIN d[name] THEN NoImage
    ELSE LET x == d[name].thumbnail[1]
             y == d[name].thumbnail[2]
             spanx == IF "span" \in DOMAIN d[name] THEN d[name].span[1] ELSE 1
             spany == IF "span" \in DOMAIN d[name] THEN d[name].span[2] ELSE 1
         IN  crop("tokens", <<x, y, x + THUMB * spanx, y + THUMB * spany>>)

\* Ref.image: the item image, or else the token image
RefImage(ref) ==
    IF Ref_image(dictionary.items, ref.item) # NoImage
    THEN Ref_image(dictionary.items, ref.item)
    ELSE Ref_image(dictionary.tokens, ref.name)

\* Ref.__init__
Ref(name, item, pos) == [name |-> name, item |-> item, pos |-> pos]

(* -------------------------- directive registry ------------------------- *)
HIGHLIGHT == <<"H", "I", "G", "H", "L", "I", "G", "H", "T">>
ROW == <<"R", "O", "W">>
COLUMN == <<"C", "O", "L", "U", "M", "N">>

DIRECTIVES == (HIGHLIGHT :> "highlight")

\* highlight(image, args): the outline drawn, or the exception raised
highlight(size, args) ==
    IF Len(args) # 2 THEN [exc |-> "ValueError"]
    ELSE IF ~IsInt(args[2]) THEN [exc |-> "ValueError"]
    ELSE LET rc == args[1]
             num == int(args[2])
         IN  IF rc = ROW
             THEN [exc |-> "none", fill |-> "red", width |-> LINEWIDTH,
                   box |-> <<0, HEIGHT * num, size[1], HEIGHT * (num + 1)>>]
             ELSE IF rc = COLUMN
             THEN [exc |-> "none", fill |-> "red", width |-> LINEWIDTH,
                   box |-> <<WIDTH * num, 0, WIDTH * (num + 1), size[2]>>]
             ELSE [exc |-> "UnboundLocalError"]

(* ---------------------------- table files ------------------------------ *)
Blank == <<>>
Comment == <<"#", " ", "c">>
Sp == <<" ">>
Bar == <<"|">>

RECURSIVE Flatten(_)
Flatten(ss) == IF Len(ss) = 0 THEN <<>> ELSE Head(ss) \o Flatten(Tail(ss))

\* "+-+-+" with w columns
HeaderLine(w) == <<"+">> \o Flatten([i \in 1..w |-> <<"-", "+">>])

\* "|c1|c2|"
CellLine(cells) == Bar \o Flatten([i \in 1..Len(cells) |-> cells[i] \o Bar])

\* one grid row: spaces line, tokens line, separator
RowLines(cells, toks, w) == <<CellLine(cells), CellLine(toks), HeaderLine(w)>>

Line(ws) == Flatten([i \in 1..Len(ws) |-> IF i = 1 THEN ws[i] ELSE Sp \o ws[i]])

\* the ref table used by every file: a plain token, an item, a ref whose
\* identifiers are in neither mapping, a token without thumbnail
RefsDefault ==
    << Line(<< <<"a">>, TK, NIL, <<"4">>, <<"-", "2">> >>),
       Line(<< <<"i">>, ITEM, SW, <<"8">>, <<"1", "0">> >>),
       Line(<< <<"m">>, <<"z", "z">>, NIL, <<"0">>, <<"0">> >>),
       Line(<< <<"n">>, NT, NIL, <<"1">>, <<"1">> >>) >>

RefsVariants ==
    { RefsDefault,
      << Line(<< <<"a">>, TK, NIL, <<"4">> >>) >>,
      << Line(<< <<"a">>, TK, NIL, <<"4">>, <<"2">>, <<"9">> >>) >>,
      << Line(<< <<"a">>, TK, NIL, <<"x">>, <<"2">> >>) >>,
      << Head(RefsDefault), Line(<< <<"i">>, ITEM, SW, <<"8">>, <<"y">> >>) >> }

DirLines ==
    { Line(<<HIGHLIGHT, ROW, <<"0">> >>),
      Line(<<HIGHLIGHT, COLUMN, <<"1">> >>),
      Line(<<HIGHLIGHT, ROW, <<"x">> >>),
      Line(<<HIGHLIGHT, <<"D">>, <<"0">> >>),
      Line(<<HIGHLIGHT, ROW>>),
      Line(<< <<"B", "O", "G", "U", "S">>, <<"1">> >>) }

SeqsUpTo(S, n) == UNION {[1..m -> S] : m \in 0..n}

HeadDefault == <<Comment, Blank, <<"1">> >>

RowsDefault == RowLines(<<Sp \o X \o Sp, <<>> >>, << <<"a", "i">>, Sp>>, 2)

File(head, w, rows, refs, dirs) ==
    head \o <<HeaderLine(w)>> \o rows \o <<Blank>> \o refs \o <<Blank>> \o dirs

\* comments, an optional line between comments and version, the version
VersionLines == { <<"1">>, <<"2">>, <<"x">>, <<" ", "1", " ">> }

Heads ==
    { [i \in 1..k |-> Comment] \o lead \o <<v>> :
        k \in 0..MaxComments, lead \in {<<>>, <<Blank>>}, v \in VersionLines }

FilesHead == { File(h, 2, RowsDefault, RefsDefault, <<>>) : h \in Heads }

\* grids by shape: per row the number of cells on the spaces line and on
\* the tokens line, under headers of every width
ShapeRows(shape, w) ==
    Flatten([r \in 1..Len(shape) |->
        RowLines([i \in 1..shape[r][1] |-> X], [i \in 1..shape[r][2] |-> <<"a">>], w)])

FilesShape ==
    { File(HeadDefault, w, ShapeRows(shape, w), RefsDefault, <<>>) :
        w \in 1..MaxCells, shape \in SeqsUpTo((0..MaxCells) \X (0..MaxCells), MaxRows) }

\* grids by content: each cell one of these (space text, token text) pairs
CellOpts ==
    { << <<>>, <<>> >>,
      << Sp \o X \o Sp, <<"a", "i">> >>,
      << <<"X", "?">>, <<"a">> >>,
      << NIL, <<"m">> >>,
      << <<"Y">>, Sp >>,
      << W, <<"i">> >>,
      << X, <<"z">> >>,
      << NIL \o <<"?">>, <<"z">> >>,
      << <<"?">>, <<"n">> >>,
      << <<"*", "X">>, <<"i", "a">> >>,
      << <<>>, <<"a">> >> }

Layouts == { rc \in (1..ContentCells) \X (1..ContentCells) : rc[1] * rc[2] = ContentCells }

ContentRows(rc, opt) ==
    Flatten([r \in 1..rc[1] |->
        RowLines([c \in 1..rc[2] |-> opt[(r - 1) * rc[2] + c][1]],
                 [c \in 1..rc[2] |-> opt[(r - 1) * rc[2] + c][2]], rc[2])])

FilesContent ==
    { File(HeadDefault, rc[2], ContentRows(rc, opt), RefsDefault, <<>>) :
        rc \in Layouts, opt \in [1..ContentCells -> CellOpts] }

FilesRefs == { File(HeadDefault, 2, RowsDefault, refs, <<>>) : refs \in RefsVariants }

FilesDirs ==
    { File(HeadDefault, 2, RowsDefault, RefsDefault, dirs) : dirs \in SeqsUpTo(DirLines, MaxDirs) }

Files == FilesHead \cup FilesShape \cup FilesContent \cup FilesRefs \cup FilesDirs

(* ------------------------------- state --------------------------------- *)
VARIABLES
    file,        \* the table file, a sequence of lines
    pos,         \* number of lines readline has consumed
    pc,          \* position in the program
    err,         \* the exception that ended the run, "none" otherwise
    version,     \* load_table: locals
    headline,
    width,
    table,       \* list of rows of Space records
    ndim,        \* number of dimensions of np.array(table), 0 before it exists
    refs,        \* ref code -> Ref
    fn,          \* load_table's local fn, read by every directive closure
    data,        \* load_table's local data, read by every directive closure
    dirs,        \* the directive closures
    setting,     \* argv[1]
    spaces,      \* state of the space sheet: "unopened", "open", "closed"
    tokens,      \* state of the token sheet
    size,        \* result.size
    result,      \* the canvas, as the sequence of operations drawn on it
    cur,         \* loop cursor of the current pass
    jspaces,     \* render_json: spaces
    jtokens,     \* render_json: tokens
    output,      \* what the program has emitted
    raw,         \* a raw cell identifier handed to Space
    cell         \* the Space built from it

vars == <<file, pos, pc, err, version, headline, width, table, ndim, refs, fn, data,
          dirs, setting, spaces, tokens, size, result, cur, jspaces, jtokens, output,
          raw, cell>>

loadVars == <<version, headline, width, table, ndim, refs, fn, data, dirs>>
renderVars == <<setting, spaces, tokens, size, result, cur, jspaces, jtokens, output>>
normVars == <<raw, cell>>

NoCell == [space |-> None, refs |-> <<>>, show |-> FALSE]
NoOutput == [kind |-> "none"]

Idle ==
    /\ pos = 0 /\ err = "none"
    /\ version = 0 /\ headline = <<>> /\ width = 0 /\ table = <<>> /\ ndim = 0
    /\ refs = <<>> /\ fn = "unbound" /\ data = <<>> /\ dirs = <<>>
    /\ setting = "" /\ spaces = "unopened" /\ tokens = "unopened"
    /\ size = <<0, 0>> /\ result = <<>> /\ cur = 1
    /\ jspaces = <<>> /\ jtokens = <<>> /\ output = NoOutput

\* python3 render.py <setting> <file> [<out>]
Init ==
    /\ file \in Files
    /\ pc = "comments"
    /\ Idle
    /\ raw = <<>> /\ cell = NoCell

\* infile.readline() after n lines have been read
readline(n) == IF n < Len(file) THEN file[n + 1] ELSE <<>>

advance(n) == IF pos + n < Len(file) THEN pos + n ELSE Len(file)

\* an uncaught exception ends the program
Raise(e) == pc' = "raised" /\ err' = e

(* ----------------------------- load_table ------------------------------ *)
\* while infile.readline().startswith("#"): pass
SkipComments ==
    /\ pc = "comments"
    /\ pos' = advance(1)
    /\ pc' = IF startswith(readline(pos), "#") THEN "comments" ELSE "version"
    /\ UNCHANGED <<file, err, loadVars, renderVars, normVars>>

ReadVersion_unchecked ==
    /\ pc = "version"
    /\ pos' = advance(1)
    /\ IF ~IsInt(readline(pos))
       THEN Raise("ValueError") /\ UNCHANGED version
       ELSE version' = int(readline(pos)) /\ pc' = "header" /\ UNCHANGED err
    /\ UNCHANGED <<file, headline, width, table, ndim, refs, fn, data, dirs, renderVars, normVars>>

\* version = int(infile.readline()); the name StandardError does not exist
\* under python3, so the raise statement itself fails with NameError
ReadVersion ==
    /\ pc = "version"
    /\ pos' = advance(1)
    /\ IF ~IsInt(readline(pos))
       THEN Raise("ValueError") /\ UNCHANGED version
       ELSE /\ version' = int(readline(pos))
            /\ IF version' # 1 THEN Raise("NameError") ELSE pc' = "header" /\ UNCHANGED err
    /\ UNCHANGED <<file, headline, width, table, ndim, refs, fn, data, dirs, renderVars, normVars>>

ReadHeader ==
    /\ pc = "header"
    /\ pos' = advance(1)
    /\ headline' = readline(pos)
    /\ table' = <<>>
    /\ width' = count(readline(pos), "+") - 1
    /\ pc' = "grid"
    /\ UNCHANGED <<file, err, version, ndim, refs, fn, data, dirs, renderVars, normVars>>

\* zip(spaces_arr, tokens_arr), each pair made a Space
zipRow(spaces_arr, tokens_arr) ==
    LET n == IF Len(spaces_arr) < Len(tokens_arr) THEN Len(spaces_arr) ELSE Len(tokens_arr)
    IN  [i \in 1..n |-> Space(replace(strip(spaces_arr[i]), "*"), strip(tokens_arr[i]))]

ReadRow ==
    /\ pc = "grid"
    /\ IF strip(readline(pos)) = <<>>
       THEN /\ pos' = advance(1)
            /\ refs' = <<>>
            /\ pc' = "refs"
            /\ UNCHANGED table
       ELSE /\ pos' = advance(3)
            /\ table' = Append(table, zipRow(inner(split(readline(pos), "|")),
                                             inner(split(readline(pos + 1), "|"))))
            /\ UNCHANGED <<pc, refs>>
    /\ UNCHANGED <<file, err, version, headline, width, ndim, fn, data, dirs, renderVars, normVars>>

ReadRef ==
    /\ pc = "refs"
    /\ pos' = advance(1)
    /\ LET curr == readline(pos)
           w == words(curr)
       IN  IF strip(curr) = <<>>
           THEN pc' = "dirs" /\ UNCHANGED <<err, refs>>
           ELSE IF Len(w) # 5 THEN Raise("ValueError") /\ UNCHANGED refs
           ELSE IF ~IsInt(w[4]) \/ ~IsInt(w[5]) THEN Raise("ValueError") /\ UNCHANGED refs
           ELSE /\ refs' = (w[1] :> Ref(w[2], w[3], <<int(w[4]), int(w[5])>>)) @@ refs
                /\ UNCHANGED <<pc, err>>
    /\ UNCHANGED <<file, version, headline, width, table, ndim, fn, data, dirs, renderVars, normVars>>

\* dirs.append(lambda image: fn(image, data[1:])): the lambda holds no
\* values, it reads load_table's fn and data when it is called; src is the
\* number of the line it was made for
ReadDirective ==
    /\ pc = "dirs"
    /\ pos' = advance(1)
    /\ LET curr == readline(pos)
       IN  IF strip(curr) = <<>>
           THEN pc' = "array" /\ UNCHANGED <<err, data, fn, dirs>>
           ELSE /\ data' = words(curr)
                /\ IF data'[1] \notin DOMAIN DIRECTIVES
                   THEN Raise("KeyError") /\ UNCHANGED <<fn, dirs>>
                   ELSE /\ fn' = DIRECTIVES[data'[1]]
                        /\ dirs' = Append(dirs, [src |-> pos + 1])
                        /\ UNCHANGED <<pc, err>>
    /\ UNCHANGED <<file, version, headline, width, table, ndim, refs, renderVars, normVars>>

Ragged(t) == \E i, j \in 1..Len(t) : Len(t[i]) # Len(t[j])

\* return (np.array(table), refs, dirs): rows of one length give a 2-d
\* array, no rows a 1-d one; rows of different lengths raise ValueError in
\* numpy 1.24 and later and give a 1-d array of lists before
ArrayReturn ==
    /\ pc = "array"
    /\ IF Ragged(table)
       THEN \/ Raise("ValueError") /\ UNCHANGED ndim
            \/ ndim' = 1 /\ pc' = "main" /\ UNCHANGED err
       ELSE /\ ndim' = IF Len(table) = 0 THEN 1 ELSE 2
            /\ pc' = "main"
            /\ UNCHANGED err
    /\ UNCHANGED <<file, pos, version, headline, width, table, refs, fn, data, dirs,
                   renderVars, normVars>>

(* -------------------------------- main --------------------------------- *)
Settings == {"-i", "-t", "-x"}

\* setting = argv[1]; table, refs, dirs = load_table(infile); the branch
Main ==
    /\ pc = "main"
    /\ \E s \in Settings :
        /\ setting' = s
        /\ pc' = IF s = "-i" THEN "open_spaces" ELSE IF s = "-t" THEN "json" ELSE "exit"
    /\ cur' = 1
    /\ UNCHANGED <<file, pos, err, loadVars, spaces, tokens, size, result, jspaces, jtokens,
                   output, normVars>>

(* ---------------------------- render_image ----------------------------- *)
\* the cells in the order of the two nested enumerate loops, 0-based
RECURSIVE CellsFrom(_, _)
CellsFrom(t, y) ==
    IF y > Len(t) THEN <<>>
    ELSE [x \in 1..Len(t[y]) |-> <<y - 1, x - 1>>] \o CellsFrom(t, y + 1)

Cells(t) == CellsFrom(t, 1)

At(t, yx) == t[yx[1] + 1][yx[2] + 1]

\* leaving the with block closes every sheet that was opened
exit_noclose(sheet) == sheet

exit(sheet) == IF sheet = "open" THEN "closed" ELSE sheet

\* an exception inside the with block
RaiseInWith(e) ==
    /\ Raise(e)
    /\ spaces' = exit(spaces)
    /\ tokens' = exit(tokens)

\* spaces_png(): Image.open fails when the file is missing or unreadable
OpenSpaces ==
    /\ pc = "open_spaces"
    /\ \E ok \in BOOLEAN :
        IF ok THEN spaces' = "open" /\ pc' = "open_tokens" /\ UNCHANGED err
        ELSE Raise("IOError") /\ UNCHANGED spaces
    /\ UNCHANGED <<file, pos, loadVars, setting, tokens, size, result, cur, jspaces, jtokens,
                   output, normVars>>

\* tokens_png(), with the space sheet already entered
OpenTokens ==
    /\ pc = "open_tokens"
    /\ \E ok \in BOOLEAN :
        IF ok THEN tokens' = "open" /\ pc' = "canvas" /\ UNCHANGED <<err, spaces>>
        ELSE RaiseInWith("IOError")
    /\ UNCHANGED <<file, pos, loadVars, setting, size, result, cur, jspaces, jtokens,
                   output, normVars>>

\* height, width = table.shape; result = Image.new(...)
NewCanvas ==
    /\ pc = "canvas"
    /\ IF ndim # 2
       THEN RaiseInWith("ValueError") /\ UNCHANGED <<size, result, cur>>
       ELSE /\ size' = <<Len(table[1]) * WIDTH, Len(table) * HEIGHT>>
            /\ result' = <<>>
            /\ cur' = 1
            /\ pc' = "gap"
            /\ UNCHANGED <<err, spaces, tokens>>
    /\ UNCHANGED <<file, pos, loadVars, setting, jspaces, jtokens, output, normVars>>

\* the layer each tile loop pastes
PassLayer_swapped(p) == IF p = "gap" THEN 1 ELSE 0

PassLayer(p) == IF p = "gap" THEN 0 ELSE 1

\* result.paste(img, at, img)
paste(kind, img, at, yx) == [op |-> "paste", kind |-> kind, img |-> img, at |-> at, cell |-> yx]

\* one iteration of a tile loop for the cells of layer l, then pass nxt
TileStep(l, nxt) ==
    IF cur > Len(Cells(table))
    THEN pc' = nxt /\ cur' = 1 /\ UNCHANGED <<err, spaces, tokens, result>>
    ELSE LET yx == Cells(table)[cur]
             elem == At(table, yx)
             got == SpaceImage(elem)
         IN  IF layer(elem) # l
             THEN cur' = cur + 1 /\ UNCHANGED <<pc, err, spaces, tokens, result>>
             ELSE IF got.exc # "none"
             THEN RaiseInWith(got.exc) /\ UNCHANGED <<cur, result>>
             ELSE /\ cur' = cur + 1
                  /\ result' = IF got.img # NoImage
                               THEN Append(result, paste("tile", got.img,
                                                         <<yx[2] * WIDTH, yx[1] * HEIGHT>>, yx))
                               ELSE result
                  /\ UNCHANGED <<pc, err, spaces, tokens>>

GapLayer ==
    /\ pc = "gap"
    /\ TileStep(PassLayer("gap"), "space")
    /\ UNCHANGED <<file, pos, loadVars, setting, size, jspaces, jtokens, output, normVars>>

SpaceLayer ==
    /\ pc = "space"
    /\ TileStep(PassLayer("space"), "ref")
    /\ UNCHANGED <<file, pos, loadVars, setting, size, jspaces, jtokens, output, normVars>>

\* refs[ref]: the Ref, or KeyError for a code that is not a key
NoRef == Ref(<<>>, <<>>, <<0, 0>>)

lookup_get(known, code) ==
    IF <<code>> \in DOMAIN known THEN [exc |-> "none", ref |-> known[<<code>>]]
    ELSE [exc |-> "none", ref |-> NoRef]

lookup(known, code) ==
    IF <<code>> \in DOMAIN known THEN [exc |-> "none", ref |-> known[<<code>>]]
    ELSE [exc |-> "KeyError", ref |-> NoRef]

\* the codes of a cell that are looked up before the first missing one
RECURSIVE Resolved(_, _)
Resolved(codes, known) ==
    IF Len(codes) = 0 \/ lookup(known, Head(codes)).exc # "none" THEN <<>>
    ELSE <<Head(codes)>> \o Resolved(Tail(codes), known)

\* the pastes of the refs of one cell, in order
RefPastes(codes, yx) ==
    LET shown == SelectSeq(codes, LAMBDA c : RefImage(lookup(refs, c).ref) # NoImage)
    IN  [i \in 1..Len(shown) |->
            paste("token", RefImage(lookup(refs, shown[i]).ref),
                  <<yx[2] * WIDTH + lookup(refs, shown[i]).ref.pos[1],
                    yx[1] * HEIGHT + lookup(refs, shown[i]).ref.pos[2]>>, yx)]

\* one cell of the ref loop: refs[ref] raises KeyError for an unknown code
RefLayer ==
    /\ pc = "ref"
    /\ IF cur > Len(Cells(table))
       THEN pc' = "directives" /\ cur' = 1 /\ UNCHANGED <<err, spaces, tokens, result>>
       ELSE LET yx == Cells(table)[cur]
                elem == At(table, yx)
                codes == Resolved(elem.refs, refs)
            IN  /\ result' = result \o RefPastes(codes, yx)
                /\ IF Len(codes) < Len(elem.refs)
                   THEN RaiseInWith("KeyError") /\ UNCHANGED cur
                   ELSE cur' = cur + 1 /\ UNCHANGED <<pc, err, spaces, tokens>>
    /\ UNCHANGED <<file, pos, loadVars, setting, size, jspaces, jtokens, output, normVars>>

\* d(result) for the closure dirs[cur]: fn(image, data[1:]) with the fn
\* and data that load_table's frame holds now
ApplyDirective ==
    /\ pc = "directives"
    /\ IF cur > Len(dirs)
       THEN pc' = "return" /\ UNCHANGED <<err, spaces, tokens, result, cur>>
       ELSE LET drawn == highlight(size, Tail(data))
            IN  IF drawn.exc # "none"
                THEN RaiseInWith(drawn.exc) /\ UNCHANGED <<result, cur>>
                ELSE /\ result' = Append(result, [op |-> "directive", kind |-> "directive",
                                                  fn |-> fn, args |-> Tail(data),
                                                  drawn |-> drawn, src |-> dirs[cur].src])
                     /\ cur' = cur + 1
                     /\ UNCHANGED <<pc, err, spaces, tokens>>
    /\ UNCHANGED <<file, pos, loadVars, setting, size, jspaces, jtokens, output, normVars>>

\* return result, leaving the with block
ImageReturn ==
    /\ pc = "return"
    /\ spaces' = exit(spaces)
    /\ tokens' = exit(tokens)
    /\ pc' = "emit_image"
    /\ UNCHANGED <<file, pos, err, loadVars, setting, size, result, cur, jspaces, jtokens,
                   output, normVars>>

\* img.save(argv[3]) when an output path is given, img.show() otherwise
EmitImage ==
    /\ pc = "emit_image"
    /\ \E path \in BOOLEAN :
        output' = [kind |-> IF path THEN "saved" ELSE "shown", image |-> result, size |-> size]
    /\ pc' = "exit"
    /\ UNCHANGED <<file, pos, err, loadVars, setting, spaces, tokens, size, result, cur,
                   jspaces, jtokens, normVars>>

(* ----------------------------- render_json ----------------------------- *)
\* the token object of one ref of the cell in column x of row y
placement_noitem(ref, x, y) ==
    [object |-> ref.name,
     position |-> <<x * WIDTH + ref.pos[1], y * HEIGHT + ref.pos[2]>>]

placement(ref, x, y) ==
    [object |-> IF ref.name = ITEM THEN ref.item ELSE ref.name,
     position |-> <<x * WIDTH + ref.pos[1], y * HEIGHT + ref.pos[2]>>]

\* elem.space or "gap"
spaceName(elem) == IF elem.space = None \/ elem.space = <<>> THEN GAP ELSE elem.space

RowResolved(row) == \A x \in 1..Len(row) : Len(Resolved(row[x].refs, refs)) = Len(row[x].refs)

RowTokens(row, y) ==
    Flatten([x \in 1..Len(row) |->
        [i \in 1..Len(row[x].refs) |-> placement(lookup(refs, row[x].refs[i]).ref, x - 1, y)]])

\* one iteration of the loop over rows; after the last, data is returned
JsonRow ==
    /\ pc = "json"
    /\ IF cur > Len(table)
       THEN pc' = "emit_json" /\ UNCHANGED <<err, cur, jspaces, jtokens>>
       ELSE IF ~RowResolved(table[cur])
       THEN Raise("KeyError") /\ UNCHANGED <<cur, jspaces, jtokens>>
       ELSE /\ jspaces' = Append(jspaces, [x \in 1..Len(table[cur]) |-> spaceName(table[cur][x])])
            /\ jtokens' = jtokens \o RowTokens(table[cur], cur - 1)
            /\ cur' = cur + 1
            /\ UNCHANGED <<pc, err>>
    /\ UNCHANGED <<file, pos, loadVars, setting, spaces, tokens, size, result, output, normVars>>

\* json.dump(data, stdout); print()
EmitJson ==
    /\ pc = "emit_json"
    /\ output' = [kind |-> "json", data |-> ("0" :> [spaces |-> jspaces, tokens |-> jtokens])]
    /\ pc' = "exit"
    /\ UNCHANGED <<file, pos, err, loadVars, setting, spaces, tokens, size, result, cur,
                   jspaces, jtokens, normVars>>

Next ==
    \/ SkipComments
    \/ ReadVersion
    \/ ReadHeader
    \/ ReadRow
    \/ ReadRef
    \/ ReadDirective
    \/ ArrayReturn
    \/ Main
    \/ OpenSpaces
    \/ OpenTokens
    \/ NewCanvas
    \/ GapLayer
    \/ SpaceLayer
    \/ RefLayer
    \/ ApplyDirective
    \/ ImageReturn
    \/ EmitImage
    \/ JsonRow
    \/ EmitJson

Spec == Init /\ [][Next]_vars

(* ------------------ Space construction on its own ---------------------- *)
IdChars == {"?", "*", "n", "i", "l", "g", "a", "p", "X"}

RawIds == SeqsUpTo(IdChars, MaxIdLen)

NormInit ==
    /\ raw \in RawIds
    /\ cell = NoCell
    /\ pc = "cell"
    /\ file = <<>>
    /\ Idle

\* v = v.replace("*", ""); Space(v, list(z))
MakeSpace ==
    /\ pc = "cell"
    /\ cell' = Space(replace(raw, "*"), <<>>)
    /\ pc' = "made"
    /\ UNCHANGED <<file, pos, err, loadVars, renderVars, raw>>

NormNext == MakeSpace

SpecNorm == NormInit /\ [][NormNext]_vars

(* ======================== properties of the program ==================== *)
\* positions of the program, grouped
LoadPcs == {"comments", "version", "header", "grid", "refs", "dirs", "array"}
InWithPcs == {"canvas", "gap", "space", "ref", "directives", "return"}

Loaded == ndim # 0

\* the sections of the file, found from its text alone
FirstIndex(P(_), from) ==
    IF \E i \in from..Len(file) : P(i)
    THEN CHOOSE i \in from..Len(file) : P(i) /\ \A j \in from..(i - 1) : ~P(j)
    ELSE Len(file) + 1

IsBlankAt(i) == \A j \in 1..Len(file[i]) : file[i][j] = " "
IsHeaderAt(i) == Len(file[i]) > 0 /\ file[i][1] = "+"
NotCommentAt(i) == Len(file[i]) = 0 \/ file[i][1] # "#"

FirstNonComment == FirstIndex(NotCommentAt, 1)
HeaderIndex == FirstIndex(IsHeaderAt, 1)
GridEnd == FirstIndex(IsBlankAt, HeaderIndex + 1)
RefsEnd == FirstIndex(IsBlankAt, GridEnd + 1)
DirsEnd == FirstIndex(IsBlankAt, RefsEnd + 1)
LineAt(i) == IF i \in 1..Len(file) THEN file[i] ELSE <<>>

(* ------------------------------- C1 ------------------------------------ *)
\* C1: in every table that load_table returns, each row has (number of '+'
\* in the header line) - 1 cells, whatever the cell counts of the spaces
\* and tokens lines.
C1_Rectangular ==
    Loaded => \A r \in 1..Len(table) : Len(table[r]) = count(LineAt(HeaderIndex), "+") - 1

(* ------------------------------- C2 ------------------------------------ *)
\* C2: each directive applied by render_image is the handler named on its
\* own line, called with the argument tokens of that line, and directives
\* are applied in file order.
C2_OwnArguments ==
    /\ \A i \in 1..Len(result) :
         result[i].op = "directive" =>
            /\ result[i].fn = DIRECTIVES[words(file[result[i].src])[1]]
            /\ result[i].args = Tail(words(file[result[i].src]))
    /\ \A i, j \in 1..Len(result) :
         (i < j /\ result[i].op = "directive" /\ result[j].op = "directive")
            => result[i].src < result[j].src

(* ------------------------------- C3 ------------------------------------ *)
AllCodesResolved ==
    \A r \in 1..Len(table) : \A c \in 1..Len(table[r]) :
        \A i \in 1..Len(table[r][c].refs) : <<table[r][c].refs[i]>> \in DOMAIN refs

\* C3: a dictionary entry missing for a space, item or token identifier
\* never makes render_image raise: with every ref code in the ref table,
\* compositing does not end in a key-lookup error.
C3_MissingEntryNonFatal ==
    ~(setting = "-i" /\ pc = "raised" /\ err = "KeyError" /\ AllCodesResolved)

\* the half of C3 about refs: a ref whose item and token identifiers have
\* no thumbnail in the dictionary pastes nothing and raises nothing
HasNoImage(code) ==
    LET r == refs[<<code>>]
    IN  /\ (r.item \notin DOMAIN dictionary.items
              \/ "thumbnail" \notin DOMAIN dictionary.items[r.item])
        /\ (r.name \notin DOMAIN dictionary.tokens
              \/ "thumbnail" \notin DOMAIN dictionary.tokens[r.name])

C3_RefsNonFatal ==
    (pc \in {"directives", "return", "emit_image"} /\ AllCodesResolved) =>
        \A r \in 1..Len(table) : \A c \in 1..Len(table[r]) :
            (\A i \in 1..Len(table[r][c].refs) : HasNoImage(table[r][c].refs[i]))
                => ~\E k \in 1..Len(result) :
                        result[k].kind = "token" /\ result[k].cell = <<r - 1, c - 1>>

C3_RefsNonFatalWitness ==
    /\ pc = "emit_image"
    /\ \E r \in 1..Len(table) : \E c \in 1..Len(table[r]) :
        /\ Len(table[r][c].refs) > 0
        /\ \A i \in 1..Len(table[r][c].refs) : HasNoImage(table[r][c].refs[i])

(* ------------------------------- C4 ------------------------------------ *)
\* the pass an operation on the canvas belongs to, from the cell it is for
Rank(e) ==
    IF e.kind = "directive" THEN 3
    ELSE IF e.kind = "token" THEN 2
    ELSE IF table[e.cell[1] + 1][e.cell[2] + 1].space = GAP THEN 0
    ELSE 1

\* C4: on the canvas every gap tile is pasted before every layer-1 tile,
\* every tile before every token image and every paste before any
\* directive; a cell that is hidden or has no identifier pastes no tile.
C4_RenderOrder ==
    /\ \A i, j \in 1..Len(result) : i < j => Rank(result[i]) <= Rank(result[j])
    /\ \A i \in 1..Len(result) :
         result[i].kind = "tile" =>
            /\ table[result[i].cell[1] + 1][result[i].cell[2] + 1].space # None
            /\ table[result[i].cell[1] + 1][result[i].cell[2] + 1].show

\* a finished image holding a gap tile of a cell that comes after a
\* layer-1 cell in the grid, a token image and a directive
C4_Witness ==
    /\ pc = "emit_image"
    /\ \E i, j, k, l \in 1..Len(result) :
        /\ Rank(result[i]) = 0 /\ Rank(result[j]) = 1
        /\ Rank(result[k]) = 2 /\ Rank(result[l]) = 3
        /\ result[j].cell[1] = result[i].cell[1]
        /\ result[j].cell[2] < result[i].cell[2]

(* ------------------------------- C5 ------------------------------------ *)
\* the version line holds an integer other than 1: the first line that is
\* not a comment, or the line that load_table converts with int()
BadVersionAt(i) == IsInt(LineAt(i)) /\ int(LineAt(i)) # 1
BadVersion == BadVersionAt(FirstNonComment) \/ BadVersionAt(FirstNonComment + 1)

\* a line of the ref section without five fields or with a non-integer x, y
BadRefAt(i) ==
    LET w == words(file[i])
    IN  Len(w) # 5 \/ ~IsInt(w[4]) \/ ~IsInt(w[5])
BadRef == \E i \in (GridEnd + 1)..(RefsEnd - 1) : BadRefAt(i)

\* a line of the directive section whose keyword is not HIGHLIGHT
BadDirective == \E i \in (RefsEnd + 1)..(DirsEnd - 1) : words(file[i])[1] # HIGHLIGHT

FormatError == BadVersion \/ BadRef \/ BadDirective

CellPlacements(row, col) ==
    LET codes == table[row + 1][col + 1].refs
    IN  [i \in 1..Len(codes) |->
            LET r == refs[<<codes[i]>>]
            IN  [object |-> IF r.name = <<"i", "t", "e", "m">> THEN r.item ELSE r.name,
                 position |-> <<col * 32 + r.pos[1], row * 32 + r.pos[2]>>]]

RECURSIVE PlacementsFrom(_, _)
PlacementsFrom(row, col) ==
    IF row >= Len(table) THEN <<>>
    ELSE IF col >= Len(table[row + 1]) THEN PlacementsFrom(row + 1, 0)
    ELSE CellPlacements(row, col) \o PlacementsFrom(row, col + 1)

\* C6: the JSON that is printed is an object with the single key "0"; its
\* spaces array has one entry per cell, the cell's identifier or "gap" for
\* an absent one; its tokens array holds one placement per ref code, in
\* row-major cell order and code order, at (col*32 + dx, row*32 + dy), named
\* by the item identifier for refs named "item".
C6_JsonExport ==
    output.kind = "json" =>
        /\ DOMAIN output.data = {"0"}
        /\ Len(output.data["0"].spaces) = Len(table)
        /\ \A r \in 1..Len(table) :
            /\ Len(output.data["0"].spaces[r]) = Len(table[r])
            /\ \A c \in 1..Len(table[r]) :
                output.data["0"].spaces[r][c] =
                    IF table[r][c].space = None THEN <<"g", "a", "p">> ELSE table[r][c].space
        /\ output.data["0"].tokens = PlacementsFrom(0, 0)

\* an export of a grid with a second row, an absent identifier, and an item
\* ref among several placements
C6_Witness ==
    /\ output.kind = "json"
    /\ Len(table) > 1
    /\ \E r \in 1..Len(table) : \E c \in 1..Len(table[r]) : table[r][c].space = None
    /\ Len(output.data["0"].tokens) >= 3
    /\ \E k \in 1..Len(output.data["0"].tokens) : output.data["0"].tokens[k].object = SW
    /\ \E k \in 1..Len(output.data["0"].tokens) : output.data["0"].tokens[k].position[2] >= 32

(* ------------------------------- C7 ------------------------------------ *)
Unstarred == SelectSeq(raw, LAMBDA ch : ch # "*")
Hidden == Len(Unstarred) > 0 /\ Unstarred[Len(Unstarred)] = "?"
Unmarked == IF Hidden THEN SubSeq(Unstarred, 1, Len(Unstarred) - 1) ELSE Unstarred

\* C7: a Space built from raw identifier s (asterisks removed) is visible
\* iff s does not end with '?'; its identifier is s without one trailing
\* '?', absent for "nil", "gap" for the empty string; its layer is none for
\* absent, 0 for "gap" and 1 otherwise.
C7_Normalisation ==
    pc = "made" =>
        /\ cell.show = ~Hidden
        /\ cell.space = IF Unmarked = <<"n", "i", "l">> THEN None
                        ELSE IF Unmarked = <<>> THEN <<"g", "a", "p">>
                        ELSE Unmarked
        /\ (raw = <<"X", "?">> => cell.space = <<"X">> /\ ~cell.show)
        /\ (raw = <<>> => cell.space = <<"g", "a", "p">> /\ cell.show)
        /\ (raw = <<"n", "i", "l">> => cell.space = None /\ cell.show)
        /\ layer(cell) = IF cell.space = None THEN NoLayer
                         ELSE IF cell.space = <<"g", "a", "p">> THEN 0
                         ELSE 1

\* "nil?" has become a hidden Space without identifier and without layer
C7_Witness ==
    /\ pc = "made"
    /\ raw = <<"n", "i", "l", "?">>
    /\ cell.space = None /\ ~cell.show /\ layer(cell) = NoLayer

(* ------------------------------- C8 ------------------------------------ *)
Unresolved(r, c) ==
    \E i \in 1..Len(table[r][c].refs) : <<table[r][c].refs[i]>> \notin DOMAIN refs

\* C8: when a cell carries a ref code that is not in the ref table, neither
\* renderer returns: no image, no data, no directive applied; render_json
\* ends in a key-lookup error, and so does render_image once both sheets are
\* open and the table is a grid; a hidden or absent cell makes no exception.
C8_UnresolvedFatal ==
    (Loaded /\ setting \in {"-i", "-t"} /\ ~AllCodesResolved) =>
        /\ pc \notin {"directives", "return", "emit_image", "emit_json", "exit"}
        /\ output = NoOutput
        /\ (pc = "raised" /\ setting = "-t") => err = "KeyError"
        /\ (pc = "raised" /\ setting = "-i" /\ tokens # "unopened" /\ ndim = 2)
              => err = "KeyError"

\* render_image has failed in the ref loop at a hidden cell without
\* identifier that carries an unknown code
C8_Witness ==
    /\ pc = "raised" /\ err = "KeyError" /\ setting = "-i"
    /\ cur <= Len(Cells(table))
    /\ LET yx == Cells(table)[cur]
       IN  /\ Unresolved(yx[1] + 1, yx[2] + 1)
           /\ table[yx[1] + 1][yx[2] + 1].space = None
           /\ ~table[yx[1] + 1][yx[2] + 1].show

(* ------------------------------- C9 ------------------------------------ *)
\* the file is k comment lines, then a version line holding 1, then the
\* header line
C9Shape ==
    /\ FirstNonComment + 1 <= Len(file)
    /\ IsInt(file[FirstNonComment]) /\ int(file[FirstNonComment]) = 1
    /\ IsHeaderAt(FirstNonComment + 1)

\* C9: for k comment lines directly followed by the version line and the
\* header line, load_table reads the version from the first line that is
\* not a comment and the header from the line after it, and accepts 1.
C9_HeaderParsing ==
    C9Shape =>
        /\ pc = "header" => (pos = FirstNonComment /\ version = 1)
        /\ pc = "grid" => headline = file[FirstNonComment + 1]
        /\ ~(pc = "raised" /\ pos <= FirstNonComment + 1)

(* ------------------------------- C10 ----------------------------------- *)
\* C10: inside the with block of render_image both sheets are open, and
\* once render_image has exited, by return or by any exception, no sheet
\* is open.
C10_SheetsClosed ==
    /\ pc \in InWithPcs => (spaces = "open" /\ tokens = "open")
    /\ pc \in {"raised", "emit_image", "exit"} => (spaces # "open" /\ tokens # "open")

\* a directive has failed and both sheets are closed
C10_Witness ==
    /\ pc = "raised" /\ err \in {"ValueError", "UnboundLocalError"}
    /\ Len(dirs) > 0 /\ Len(result) > 0
    /\ spaces = "closed" /\ tokens = "closed"

====
